---- MODULE Spec2Model ----
(***************************************************************************)
(* Model of the task API server (backend/src/app.js): the express route    *)
(* handlers over the MySQL `tasks` table, and the initDb start-up routine.  *)
(*                                                                         *)
(* Every route handler issues at most one store statement, and the code    *)
(* before and after its single `await` touches nothing but the request and  *)
(* the response, so a handler is one atomic action here: it reads the       *)
(* request, runs its statement against the store and records the response.  *)
(*                                                                         *)
(* JavaScript and SQL values are tagged records, so that `undefined`,       *)
(* `null`, strings and numbers stay distinct (the path parameter "1" is not *)
(* the number 1, a missing description is not the empty string).            *)
(***************************************************************************)
EXTENDS Integers, Sequences, FiniteSets, TLC

VARIABLES
    dbUp,        \* the MySQL server is reachable
    dbExists,    \* the database DB_NAME exists on the server
    tableExists, \* the table `tasks` exists in it
    rows,        \* the table: id -> [title, description, created_at]
    nextId,      \* the table's AUTO_INCREMENT counter
    now,         \* the store's clock (CURRENT_TIMESTAMP)
    initPc,      \* where initDb stands
    tempPools,   \* temporary pools created by initDb and still open
    attempts,    \* calls of initDb so far
    running,     \* calls of initDb that have not returned yet
    timers,      \* setTimeout(initDb, 5000) timers armed and not fired yet
    last,        \* the last request handled (route, :id) and the response it was given
    created,     \* history: [id, created_at] of every successful create, in order
    deleted,     \* history: the ids whose Delete was answered 204
    inflight,    \* two overlapping requests: each one's handler, step by step
    client       \* the Presentation Client (frontend App component)

vars == <<dbUp, dbExists, tableExists, rows, nextId, now, initPc, tempPools,
          attempts, running, timers, last, created, deleted, inflight, client>>

schema == <<dbExists, tableExists>>
table == <<rows, nextId>>
startup == <<initPc, tempPools, attempts, running, timers>>
history == <<created, deleted>>
callers == <<inflight, client>>

-----------------------------------------------------------------------------
(* Bounds of the model. *)

MaxCreates == 2     \* successful creates explored
MaxClock == 1       \* ticks of the store's clock explored
MaxAttempts == 2    \* initDb attempts explored
MaxPending == 2     \* fetchTasks calls of the client awaiting their answer

-----------------------------------------------------------------------------
(* JavaScript / JSON / SQL values. *)

Undefined == [t |-> "undefined"]
Null == [t |-> "null"]
Str(s) == [t |-> "string", s |-> s]
Num(n) == [t |-> "number", n |-> n]
Timestamp(n) == [t |-> "timestamp", at |-> n]

\* JavaScript truthiness, as `!title` and `description || ''` use it.
Truthy(v) ==
    CASE v.t = "undefined" -> FALSE
      [] v.t = "null" -> FALSE
      [] v.t = "string" -> v.s # ""
      [] v.t = "number" -> v.n # 0
      [] OTHER -> TRUE

\* a || b
JsOr(a, b) == IF Truthy(a) THEN a ELSE b

BindUndefinedAsEmpty(v) == IF v.t \in {"undefined", "null"} THEN Str("") ELSE v

\* A bound `?` parameter: undefined and null are sent as SQL NULL.
Bind(v) == IF v.t \in {"undefined", "null"} THEN Null ELSE v

\* Request inputs explored: the body's title and description, the path's :id.
TitleInputs == {Undefined, Str(""), Str(" "), Str("A")}
DescriptionInputs == {Undefined, Str(""), Str("D")}

IdText == <<"1", "2", "3", "4", "5">>
\* The ids the store can assign within the bound: each is missing from the
\* table until it is assigned and again once it is deleted.
IdParams == {IdText[i] : i \in 1..MaxCreates}

\* MySQL compares the INT column id with the string parameter by its number.
IdOf(param) == CHOOSE i \in 1..Len(IdText) : IdText[i] = param

NoRows == [i \in {} |-> Null]

-----------------------------------------------------------------------------
(* The store: what the statements of the handlers do to the tasks table. *)

ReachableServerOnly == dbUp

\* pool.query on the tasks table resolves; otherwise it rejects (server
\* unreachable, unknown database, unknown table).
Reachable == dbUp /\ dbExists /\ tableExists

\* WHERE id = ?
Matching(param) == {i \in DOMAIN rows : i = IdOf(param)}

\* A row as the driver hands it to the handler.
RowJson(i) ==
    [id |-> Num(i), title |-> rows[i].title, description |-> rows[i].description,
     created_at |-> Timestamp(rows[i].created_at)]

\* SELECT * FROM tasks, in primary-key order.
SelectAll ==
    LET ids == DOMAIN rows
    IN  [k \in 1..Cardinality(ids) |->
            RowJson(CHOOSE i \in ids : Cardinality({j \in ids : j < i}) = k - 1)]

NotNullViolatedNever(values) == FALSE

\* title VARCHAR(255) NOT NULL: the statement is rejected when it would store NULL.
NotNullViolated(values) == values[1] = Null

InsertIdMaxPlusOne ==
    IF rows = NoRows THEN 1 ELSE 1 + CHOOSE i \in DOMAIN rows : \A j \in DOMAIN rows : j <= i

\* id INT AUTO_INCREMENT PRIMARY KEY: the id the next insert gets.
InsertId == nextId

InsertedSwapped(values) ==
    [i \in DOMAIN rows \cup {InsertId} |->
        IF i = InsertId
        THEN [title |-> values[2], description |-> values[1], created_at |-> now]
        ELSE rows[i]]

\* The table after INSERT INTO tasks (title, description) VALUES (?, ?):
\* id from AUTO_INCREMENT, created_at from DEFAULT CURRENT_TIMESTAMP.
Inserted(values) ==
    [i \in DOMAIN rows \cup {InsertId} |->
        IF i = InsertId
        THEN [title |-> values[1], description |-> values[2], created_at |-> now]
        ELSE rows[i]]

UpdatedRowsTouching(values, ids) ==
    [i \in DOMAIN rows |->
        IF i \in ids
        THEN [title |-> values[1], description |-> values[2], created_at |-> now]
        ELSE rows[i]]

\* The table after UPDATE tasks SET title = ?, description = ? WHERE id = ?
UpdatedRows(values, ids) ==
    [i \in DOMAIN rows |->
        IF i \in ids
        THEN [rows[i] EXCEPT !.title = values[1], !.description = values[2]]
        ELSE rows[i]]

DeletedRowsUpTo(ids) ==
    [i \in {j \in DOMAIN rows : \A k \in ids : j > k} |-> rows[i]]

\* The table after DELETE FROM tasks WHERE id = ?
DeletedRows(ids) == [i \in DOMAIN rows \ ids |-> rows[i]]

-----------------------------------------------------------------------------
(* The handlers' own computations. *)

\* if (!title)
TitleMissing(title) == ~Truthy(title)

\* [title, description || '']
InsertValues(title, description) == <<Bind(title), Bind(JsOr(description, Str("")))>>

UpdateValuesRaw(title, description) == <<Bind(title), Bind(description)>>

\* [title, description || '', req.params.id]
UpdateValues(title, description) == <<Bind(title), Bind(JsOr(description, Str("")))>>

CreatedBodyRaw(insertId, title, description) ==
    [id |-> Num(insertId), title |-> title, description |-> description]

\* { id: result.insertId, title, description: description || '' }
CreatedBody(insertId, title, description) ==
    [id |-> Num(insertId), title |-> title, description |-> JsOr(description, Str(""))]

UpdatedBodyFromStore(param, title, description) ==
    [id |-> Num(IdOf(param)), title |-> title, description |-> JsOr(description, Str(""))]

\* { id: req.params.id, title, description }
UpdatedBody(param, title, description) ==
    [id |-> Str(param), title |-> title, description |-> description]

\* if (rows.length === 0)
GetNotFound(found) == Cardinality(found) = 0

UpdateNotFoundNever(affectedRows) == affectedRows < 0

\* if (result.affectedRows === 0), in the update handler. The driver connects
\* with FOUND_ROWS, so affectedRows counts the rows the WHERE matched.
UpdateNotFound(affectedRows) == affectedRows = 0

UpdateAffectedRowsChanged(values, ids) ==
    Cardinality({i \in ids : rows[i].title # values[1] \/ rows[i].description # values[2]})

\* result.affectedRows of the UPDATE: the rows matched (FOUND_ROWS), changed or not.
UpdateAffectedRows(values, ids) == Cardinality(ids)

DeleteNotFoundNever(affectedRows) == affectedRows < 0

\* if (result.affectedRows === 0), in the delete handler
DeleteNotFound(affectedRows) == affectedRows = 0

ErrorBody(message) == [error |-> message]

\* The request handled and the response given to it; queries counts the store
\* statements the handler issued.
Respond(op, param, queries, status, body) ==
    last' = [op |-> op, id |-> param, queries |-> queries, status |-> status, body |-> body]

NoRequest == [op |-> "none", id |-> "", queries |-> 0, status |-> 0, body |-> [none |-> TRUE]]

\* The two requests followed step by step, and a request slot not in use.
Requests == {1, 2}

NoCall == [pc |-> "idle", id |-> ""]

\* The frontend not loaded in any browser: useState([]), useState(null).
NoClient == [tasks |-> <<>>, error |-> "null", fetches |-> 0]

-----------------------------------------------------------------------------
(* Route handlers. *)

HealthProbingStore ==
    /\ IF Reachable
       THEN Respond("health", "", 1, 200, [status |-> "healthy"])
       ELSE Respond("health", "", 1, 503, [status |-> "unhealthy"])
    /\ UNCHANGED <<dbUp, schema, table, now, startup, history>>

\* GET /api/health
Health ==
    /\ Respond("health", "", 0, 200, [status |-> "healthy"])
    /\ UNCHANGED <<dbUp, schema, table, now, startup, history>>

\* GET /api/tasks
List ==
    /\ IF Reachable
       THEN Respond("list", "", 1, 200, [list |-> SelectAll])
       ELSE Respond("list", "", 1, 500,
                    ErrorBody("Failed to fetch tasks"))
    /\ UNCHANGED <<dbUp, schema, table, now, startup, history>>

\* GET /api/tasks/:id
Get(param) ==
    /\ IF ~Reachable
       THEN Respond("get", param, 1, 500,
                    ErrorBody("Failed to fetch task"))
       ELSE IF GetNotFound(Matching(param))
       THEN Respond("get", param, 1, 404,
                    ErrorBody("Task not found"))
       ELSE Respond("get", param, 1, 200,
                    RowJson(CHOOSE i \in Matching(param) : TRUE))
    /\ UNCHANGED <<dbUp, schema, table, now, startup, history>>

\* POST /api/tasks
Create(title, description) ==
    /\ ~TitleMissing(title) => Len(created) < MaxCreates
    /\ IF TitleMissing(title)
       THEN /\ Respond("create", "", 0, 400,
                       ErrorBody("Title is required"))
            /\ UNCHANGED <<table, history>>
       ELSE IF ~Reachable \/ NotNullViolated(InsertValues(title, description))
       THEN /\ Respond("create", "", 1, 500,
                       ErrorBody("Failed to create task"))
            /\ UNCHANGED <<table, history>>
       ELSE LET body == CreatedBody(InsertId, title, description)
            IN  /\ rows' = Inserted(InsertValues(title, description))
                /\ nextId' = InsertId + 1
                /\ Respond("create", "", 1, 201, body)
                /\ created' = Append(created, [id |-> body.id.n,
                                               created_at |-> rows'[InsertId].created_at])
                /\ UNCHANGED deleted
    /\ UNCHANGED <<dbUp, schema, now, startup>>

UpdateValidating(param, title, description) ==
    /\ LET values == UpdateValues(title, description)
           ids == Matching(param)
       IN  IF TitleMissing(title)
           THEN /\ Respond("update", param, 0, 400, ErrorBody("Title is required"))
                /\ UNCHANGED rows
           ELSE IF ~Reachable
           THEN /\ Respond("update", param, 1, 500,
                           ErrorBody("Failed to update task"))
                /\ UNCHANGED rows
           ELSE IF UpdateNotFound(UpdateAffectedRows(values, ids))
           THEN /\ Respond("update", param, 1, 404,
                           ErrorBody("Task not found"))
                /\ UNCHANGED rows
           ELSE /\ Respond("update", param, 1, 200,
                           UpdatedBody(param, title, description))
                /\ rows' = UpdatedRows(values, ids)
    /\ UNCHANGED <<dbUp, schema, nextId, now, startup, created, deleted>>

\* PUT /api/tasks/:id
Update(param, title, description) ==
    /\ LET values == UpdateValues(title, description)
           ids == Matching(param)
       IN  IF ~Reachable \/ (ids # {} /\ NotNullViolated(values))
           THEN /\ Respond("update", param, 1, 500,
                           ErrorBody("Failed to update task"))
                /\ UNCHANGED rows
           ELSE IF UpdateNotFound(UpdateAffectedRows(values, ids))
           THEN /\ Respond("update", param, 1, 404,
                           ErrorBody("Task not found"))
                /\ UNCHANGED rows
           ELSE /\ Respond("update", param, 1, 200,
                           UpdatedBody(param, title, description))
                /\ rows' = UpdatedRows(values, ids)
    /\ UNCHANGED <<dbUp, schema, nextId, now, startup, created, deleted>>

DeleteReadingFirst(param) ==
    /\ IF ~Reachable
       THEN /\ Respond("delete", param, 1, 500,
                       ErrorBody("Failed to delete task"))
            /\ UNCHANGED <<rows, deleted>>
       ELSE IF GetNotFound(Matching(param))
       THEN /\ Respond("delete", param, 1, 404,
                       ErrorBody("Task not found"))
            /\ UNCHANGED <<rows, deleted>>
       ELSE /\ rows' = DeletedRows(Matching(param))
            /\ Respond("delete", param, 2, 204, [empty |-> TRUE])
            /\ deleted' = deleted \cup {IdOf(param)}
    /\ UNCHANGED <<dbUp, schema, nextId, now, startup, created>>

\* DELETE /api/tasks/:id
Delete(param) ==
    /\ IF ~Reachable
       THEN /\ Respond("delete", param, 1, 500,
                       ErrorBody("Failed to delete task"))
            /\ UNCHANGED <<rows, deleted>>
       ELSE IF DeleteNotFound(Cardinality(Matching(param)))
       THEN /\ Respond("delete", param, 1, 404,
                       ErrorBody("Task not found"))
            /\ UNCHANGED <<rows, deleted>>
       ELSE /\ rows' = DeletedRows(Matching(param))
            /\ Respond("delete", param, 1, 204, [empty |-> TRUE])
            /\ deleted' = deleted \cup {IdOf(param)}
    /\ UNCHANGED <<dbUp, schema, nextId, now, startup, created>>

-----------------------------------------------------------------------------
(* Start-up: app.listen's callback and initDb. *)

OnInitErrorGiveUp == "failed"

\* catch (error) { ...; setTimeout(initDb, 5000); }: the retry timer is armed.
OnInitError == "timer"

TimersAfterSuccessRearmed == timers + 1

\* The try block ran to its end: nothing is scheduled.
TimersAfterSuccess == timers

\* The catch block: one setTimeout(initDb, 5000).
TimersAfterError == timers + 1

TempPoolsAfterRunEnded == tempPools - 1

\* initDb returns, from the try block or from the catch block, without
\* tempPool.end(): its temporary pool stays open.
TempPoolsAfterRun == tempPools

TableAfterCreateFresh == <<NoRows, 1>>

\* CREATE TABLE IF NOT EXISTS tasks (...): an existing table keeps its rows
\* and its AUTO_INCREMENT counter; a new one is empty and counts from 1.
TableAfterCreateIfNotExists == IF tableExists THEN <<rows, nextId>> ELSE <<NoRows, 1>>

\* initDb is called: mysql.createPool for the temporary pool, then the first
\* await.  The counts go up to MaxAttempts, which then stands for
\* "MaxAttempts or more".
InitDbCalled ==
    /\ attempts' = IF attempts < MaxAttempts THEN attempts + 1 ELSE attempts
    /\ tempPools' = IF tempPools < MaxAttempts THEN tempPools + 1 ELSE tempPools
    /\ running' = running + 1
    /\ initPc' = "createDb"

\* app.listen(PORT, () => { initDb(); }): the first attempt creates its
\* temporary pool and sends CREATE DATABASE IF NOT EXISTS.
Listen ==
    /\ initPc = "boot"
    /\ InitDbCalled
    /\ UNCHANGED <<dbUp, schema, table, now, timers, last, history, callers>>

\* await tempPool.query(`CREATE DATABASE IF NOT EXISTS ...`)
InitCreateDatabase ==
    /\ initPc = "createDb"
    /\ IF dbUp
       THEN /\ dbExists' = TRUE /\ initPc' = "createTable"
            /\ UNCHANGED <<tempPools, running, timers>>
       ELSE /\ dbExists' = dbExists /\ initPc' = OnInitError
            /\ timers' = TimersAfterError
            /\ running' = running - 1
            /\ tempPools' = TempPoolsAfterRun
    /\ UNCHANGED <<dbUp, tableExists, table, now, attempts, last, history, callers>>

\* await pool.query(`CREATE TABLE IF NOT EXISTS tasks (...)`)
InitCreateTable ==
    /\ initPc = "createTable"
    /\ IF dbUp /\ dbExists
       THEN /\ rows' = TableAfterCreateIfNotExists[1]
            /\ nextId' = TableAfterCreateIfNotExists[2]
            /\ tableExists' = TRUE /\ initPc' = "done"
            /\ timers' = TimersAfterSuccess
       ELSE /\ UNCHANGED table
            /\ tableExists' = tableExists /\ initPc' = OnInitError
            /\ timers' = TimersAfterError
    /\ running' = running - 1
    /\ tempPools' = TempPoolsAfterRun
    /\ UNCHANGED <<dbUp, dbExists, now, attempts, last, history, callers>>

\* setTimeout(initDb, 5000) fires: the next attempt starts, however many
\* came before.
RetryTimer ==
    /\ timers > 0
    /\ timers' = timers - 1
    /\ InitDbCalled
    /\ UNCHANGED <<dbUp, schema, table, now, last, history, callers>>

-----------------------------------------------------------------------------
(* The environment. *)

\* The MySQL server becomes unreachable.
StoreDown ==
    /\ dbUp
    /\ dbUp' = FALSE
    /\ UNCHANGED <<schema, table, now, startup, last, history, callers>>

\* The MySQL server becomes reachable.
StoreUp ==
    /\ ~dbUp
    /\ dbUp' = TRUE
    /\ UNCHANGED <<schema, table, now, startup, last, history, callers>>

\* The store's clock advances.
Tick ==
    /\ now < MaxClock
    /\ now' = now + 1
    /\ UNCHANGED <<dbUp, schema, table, startup, last, history, callers>>

-----------------------------------------------------------------------------

\* The process has just started listening, against a MySQL server that may
\* not be reachable yet and whose data directory is fresh or holds the
\* (empty) schema of an earlier run.
Init ==
    /\ dbUp \in BOOLEAN
    /\ dbExists \in BOOLEAN
    /\ tableExists \in BOOLEAN
    /\ tableExists => dbExists
    /\ rows = NoRows
    /\ nextId = 1
    /\ now = 0
    /\ initPc = "boot"
    /\ tempPools = 0
    /\ attempts = 0
    /\ running = 0
    /\ timers = 0
    /\ last = NoRequest
    /\ created = <<>>
    /\ deleted = {}
    /\ inflight = [c \in Requests |-> NoCall]
    /\ client = NoClient

Next ==
    \/ Health /\ UNCHANGED callers
    \/ List /\ UNCHANGED callers
    \/ \E param \in IdParams : Get(param) /\ UNCHANGED callers
    \/ \E title \in TitleInputs, description \in DescriptionInputs :
          Create(title, description) /\ UNCHANGED callers
    \/ \E param \in IdParams, title \in TitleInputs, description \in DescriptionInputs :
          Update(param, title, description) /\ UNCHANGED callers
    \/ \E param \in IdParams : Delete(param) /\ UNCHANGED callers
    \/ Listen
    \/ InitCreateDatabase
    \/ InitCreateTable
    \/ RetryTimer
    \/ StoreDown
    \/ StoreUp
    \/ Tick

Spec == Init /\ [][Next]_vars

\* Start-up under request traffic: every route is called while initDb runs,
\* with one well-formed body and the store's clock standing still.
NextStartup ==
    \/ Health /\ UNCHANGED callers
    \/ List /\ UNCHANGED callers
    \/ \E param \in IdParams : Get(param) /\ UNCHANGED callers
    \/ Create(Str("A"), Undefined) /\ UNCHANGED callers
    \/ \E param \in IdParams : Update(param, Str("A"), Str("D")) /\ UNCHANGED callers
    \/ \E param \in IdParams : Delete(param) /\ UNCHANGED callers
    \/ Listen
    \/ InitCreateDatabase
    \/ InitCreateTable
    \/ RetryTimer
    \/ StoreDown
    \/ StoreUp

SpecStartup == Init /\ [][NextStartup]_vars

\* The event loop runs the listen callback, resumes initDb after each of its
\* awaits and fires the retry timer; nothing is assumed of the store.
StartupFairness ==
    /\ WF_vars(Listen)
    /\ WF_vars(InitCreateDatabase)
    /\ WF_vars(InitCreateTable)
    /\ WF_vars(RetryTimer)

SpecStartupLive == SpecStartup /\ StartupFairness

-----------------------------------------------------------------------------
(* The API once initDb has succeeded: the state in which it logs 'Database  *)
(* and tables initialized successfully' after its first attempt, and from   *)
(* then on the handlers, the store's outages and its clock.  No handler     *)
(* reads initDb's state.                                                    *)

InitReady ==
    /\ dbUp = TRUE
    /\ dbExists = TRUE
    /\ tableExists = TRUE
    /\ rows = NoRows
    /\ nextId = 1
    /\ now = 0
    /\ initPc = "done"
    /\ tempPools = 1
    /\ attempts = 1
    /\ running = 0
    /\ timers = 0
    /\ last = NoRequest
    /\ created = <<>>
    /\ deleted = {}
    /\ inflight = [c \in Requests |-> NoCall]
    /\ client = NoClient

NextApi ==
    \/ Health /\ UNCHANGED callers
    \/ List /\ UNCHANGED callers
    \/ \E param \in IdParams : Get(param) /\ UNCHANGED callers
    \/ \E title \in TitleInputs, description \in DescriptionInputs :
          Create(title, description) /\ UNCHANGED callers
    \/ \E param \in IdParams, title \in TitleInputs, description \in DescriptionInputs :
          Update(param, title, description) /\ UNCHANGED callers
    \/ \E param \in IdParams : Delete(param) /\ UNCHANGED callers
    \/ StoreDown
    \/ StoreUp
    \/ Tick

SpecApi == InitReady /\ [][NextApi]_vars

-----------------------------------------------------------------------------
(* Two overlapping requests.  A handler runs in three steps: express calls  *)
(* it and it sends its statement (up to the `await`), the store executes    *)
(* the statement, and the handler resumes with the result and answers.      *)
(* Between the steps of one request the steps of the other may run.         *)

InFlight(c) == inflight[c].pc \in {"sent", "executed"}

\* A request is received: the handler reads req.params and req.body and
\* sends its statement.  The two requests followed name the same id.
\* `overlapped` and `existed` record that the other request was in flight
\* then, and that the row named was in the table.
Receive(c, op, param, title, description) ==
    /\ inflight[c].pc = "idle"
    /\ \A o \in Requests : inflight[o].id \in {"", param}
    /\ inflight' =
          [k \in Requests |->
              IF k = c
              THEN [pc |-> "sent", op |-> op, id |-> param,
                    title |-> title, description |-> description,
                    overlapped |-> \E o \in Requests \ {c} : InFlight(o),
                    existed |-> Matching(param) # {},
                    ok |-> FALSE, affectedRows |-> 0, order |-> 0,
                    status |-> 0, body |-> [none |-> TRUE]]
              ELSE IF InFlight(k)
              THEN [inflight[k] EXCEPT !.overlapped = TRUE]
              ELSE inflight[k]]
    /\ UNCHANGED <<dbUp, schema, table, now, startup, last, history, client>>

\* PUT /api/tasks/:id, up to the await
ReceiveUpdate(c, param, title, description) ==
    Receive(c, "update", param, title, description)

\* DELETE /api/tasks/:id, up to the await
ReceiveDelete(c, param) == Receive(c, "delete", param, Undefined, Undefined)

\* The result of request c's statement reaches its handler; the statement of
\* the other request, if executed, was executed before it.
Executed(c, ok, affectedRows) ==
    inflight' =
        [k \in Requests |->
            IF k = c
            THEN [inflight[k] EXCEPT !.pc = "executed", !.ok = ok,
                                     !.affectedRows = affectedRows, !.order = 2]
            ELSE IF inflight[k].pc = "idle"
            THEN inflight[k]
            ELSE [inflight[k] EXCEPT !.order = IF @ = 2 THEN 1 ELSE @]]

\* The store executes UPDATE tasks SET title = ?, description = ? WHERE id = ?
ExecuteUpdate(c) ==
    /\ inflight[c].pc = "sent" /\ inflight[c].op = "update"
    /\ LET values == UpdateValues(inflight[c].title, inflight[c].description)
           ids == Matching(inflight[c].id)
       IN  IF ~Reachable \/ (ids # {} /\ NotNullViolated(values))
           THEN /\ Executed(c, FALSE, 0)
                /\ UNCHANGED rows
           ELSE /\ Executed(c, TRUE, UpdateAffectedRows(values, ids))
                /\ rows' = UpdatedRows(values, ids)
    /\ UNCHANGED <<dbUp, schema, nextId, now, startup, last, history, client>>

\* The store executes DELETE FROM tasks WHERE id = ?
ExecuteDelete(c) ==
    /\ inflight[c].pc = "sent" /\ inflight[c].op = "delete"
    /\ LET ids == Matching(inflight[c].id)
       IN  IF ~Reachable
           THEN /\ Executed(c, FALSE, 0)
                /\ UNCHANGED <<rows, deleted>>
           ELSE /\ Executed(c, TRUE, Cardinality(ids))
                /\ rows' = DeletedRows(ids)
                /\ deleted' = deleted \cup ids
    /\ UNCHANGED <<dbUp, schema, nextId, now, startup, last, created, client>>

\* The handler answers request c.
Answered(c, status, body) ==
    /\ inflight' = [inflight EXCEPT ![c].pc = "answered", ![c].status = status,
                                    ![c].body = body]
    /\ Respond(inflight[c].op, inflight[c].id, 1, status, body)

ReplyUpdateFromRead(c) ==
    /\ inflight[c].pc = "executed" /\ inflight[c].op = "update"
    /\ IF ~inflight[c].ok
       THEN Answered(c, 500, ErrorBody("Failed to update task"))
       ELSE IF ~inflight[c].existed
       THEN Answered(c, 404, ErrorBody("Task not found"))
       ELSE Answered(c, 200, UpdatedBody(inflight[c].id, inflight[c].title,
                                         inflight[c].description))
    /\ UNCHANGED <<dbUp, schema, table, now, startup, history, client>>

\* PUT /api/tasks/:id, after the await
ReplyUpdate(c) ==
    /\ inflight[c].pc = "executed" /\ inflight[c].op = "update"
    /\ IF ~inflight[c].ok
       THEN Answered(c, 500, ErrorBody("Failed to update task"))
       ELSE IF UpdateNotFound(inflight[c].affectedRows)
       THEN Answered(c, 404, ErrorBody("Task not found"))
       ELSE Answered(c, 200, UpdatedBody(inflight[c].id, inflight[c].title,
                                         inflight[c].description))
    /\ UNCHANGED <<dbUp, schema, table, now, startup, history, client>>

ReplyDeleteFromRead(c) ==
    /\ inflight[c].pc = "executed" /\ inflight[c].op = "delete"
    /\ IF ~inflight[c].ok
       THEN Answered(c, 500, ErrorBody("Failed to delete task"))
       ELSE IF ~inflight[c].existed
       THEN Answered(c, 404, ErrorBody("Task not found"))
       ELSE Answered(c, 204, [empty |-> TRUE])
    /\ UNCHANGED <<dbUp, schema, table, now, startup, history, client>>

\* DELETE /api/tasks/:id, after the await
ReplyDelete(c) ==
    /\ inflight[c].pc = "executed" /\ inflight[c].op = "delete"
    /\ IF ~inflight[c].ok
       THEN Answered(c, 500, ErrorBody("Failed to delete task"))
       ELSE IF DeleteNotFound(inflight[c].affectedRows)
       THEN Answered(c, 404, ErrorBody("Task not found"))
       ELSE Answered(c, 204, [empty |-> TRUE])
    /\ UNCHANGED <<dbUp, schema, table, now, startup, history, client>>

\* Tasks are created, then the two requests arrive.
NextRace ==
    \/ \E description \in DescriptionInputs :
          /\ \A c \in Requests : inflight[c].pc = "idle"
          /\ Create(Str("A"), description)
          /\ UNCHANGED callers
    \/ \E c \in Requests, param \in IdParams,
          title \in TitleInputs, description \in DescriptionInputs :
          ReceiveUpdate(c, param, title, description)
    \/ \E c \in Requests, param \in IdParams : ReceiveDelete(c, param)
    \/ \E c \in Requests : ExecuteUpdate(c)
    \/ \E c \in Requests : ExecuteDelete(c)
    \/ \E c \in Requests : ReplyUpdate(c)
    \/ \E c \in Requests : ReplyDelete(c)

SpecRace == InitReady /\ [][NextRace]_vars

-----------------------------------------------------------------------------
(* The Presentation Client: the App component of the frontend.  Each of its  *)
(* API calls is one step, the route handler included; a fetchTasks() it has  *)
(* started is pending until the server handles its GET.                     *)

\* What the forms hold: strings.
ClientTitles == {title \in TitleInputs : title.t = "string"}
ClientDescriptions == {description \in DescriptionInputs : description.t = "string"}

\* !newTask.title.trim(), !editingTask.title.trim()
TrimmedEmpty(title) == \A k \in 1..Len(title.s) : SubSeq(title.s, k, k) = " "

\* axios resolves on a 2xx status and rejects on any other.
Resolved(status) == status \in 200..299

\* `${API_URL}/tasks/${id}` for the k-th task of the local list
ClientParam(k) == IdText[client.tasks[k].id.n]

AfterMutationPatching(status, message) ==
    IF Resolved(status)
    THEN [client EXCEPT !.tasks = <<>>]
    ELSE [client EXCEPT !.error = message]

\* The try/catch around a mutating call: fetchTasks() when it resolved,
\* setError(message) when it rejected.
AfterMutation(status, message) ==
    IF Resolved(status)
    THEN [client EXCEPT !.fetches = @ + 1]
    ELSE [client EXCEPT !.error = message]

\* fetchTasks: GET /tasks, then setTasks(response.data) and setError(null),
\* or setError(...) alone.
ClientFetch ==
    /\ client.fetches > 0
    /\ List
    /\ client' = IF Resolved(last'.status)
                 THEN [tasks |-> last'.body.list, error |-> "null",
                       fetches |-> client.fetches - 1]
                 ELSE [client EXCEPT
                          !.error = "Failed to fetch tasks. Please check your backend service.",
                          !.fetches = @ - 1]
    /\ UNCHANGED inflight

\* setError('Task title is required.'); return;
ClientRejects ==
    /\ client' = [client EXCEPT !.error = "Task title is required."]
    /\ UNCHANGED <<dbUp, schema, table, now, startup, last, history, inflight>>

\* createTask: submit of the "Add New Task" form
ClientCreate(title, description) ==
    /\ client.fetches < MaxPending
    /\ IF TrimmedEmpty(title)
       THEN ClientRejects
       ELSE /\ Create(title, description)
            /\ client' = AfterMutation(last'.status,
                                       "Failed to create task. Please try again.")
            /\ UNCHANGED inflight

\* updateTask: submit of the edit form opened on the k-th task of the list
ClientUpdate(k, title, description) ==
    /\ client.fetches < MaxPending
    /\ k \in 1..Len(client.tasks)
    /\ IF TrimmedEmpty(title)
       THEN ClientRejects
       ELSE /\ Update(ClientParam(k), title, JsOr(description, Str("")))
            /\ client' = AfterMutation(last'.status,
                                       "Failed to update task. Please try again.")
            /\ UNCHANGED inflight

\* deleteTask: the Delete button of the k-th task of the list, confirmed
ClientDelete(k) ==
    /\ client.fetches < MaxPending
    /\ k \in 1..Len(client.tasks)
    /\ Delete(ClientParam(k))
    /\ client' = AfterMutation(last'.status,
                               "Failed to delete task. Please try again.")
    /\ UNCHANGED inflight

\* The App component has mounted: useEffect has called fetchTasks().
InitClient ==
    /\ dbUp = TRUE
    /\ dbExists = TRUE
    /\ tableExists = TRUE
    /\ rows = NoRows
    /\ nextId = 1
    /\ now = 0
    /\ initPc = "done"
    /\ tempPools = 1
    /\ attempts = 1
    /\ running = 0
    /\ timers = 0
    /\ last = NoRequest
    /\ created = <<>>
    /\ deleted = {}
    /\ inflight = [c \in Requests |-> NoCall]
    /\ client = [NoClient EXCEPT !.fetches = 1]

\* One browser using the application, another user deleting tasks, and a
\* store that has outages.
NextClient ==
    \/ ClientFetch
    \/ \E title \in ClientTitles, description \in ClientDescriptions :
          ClientCreate(title, description)
    \/ \E k \in 1..MaxCreates, title \in ClientTitles, description \in ClientDescriptions :
          ClientUpdate(k, title, description)
    \/ \E k \in 1..MaxCreates : ClientDelete(k)
    \/ \E param \in IdParams : Delete(param) /\ UNCHANGED callers
    \/ StoreDown
    \/ StoreUp

SpecClient == InitClient /\ [][NextClient]_vars

-----------------------------------------------------------------------------
(* Vocabulary of the properties. *)

\* A step in which the handler of `op` answered a request. (A request repeated
\* with the same answer and no effect is a stuttering step.)
Handled(op) == last' # last /\ last'.op = op

TableUnchanged == rows' = rows /\ nextId' = nextId

NotFoundBody == [error |-> "Task not found"]

\* The id a request's :id names.
Target(request) == CHOOSE i \in 1..Len(IdText) : IdText[i] = request.id

WhitespaceOnly(s) == \A k \in 1..Len(s) : SubSeq(s, k, k) = " "

\* A title that is missing, empty or whitespace-only.
BlankTitle(v) == v.t \in {"undefined", "null"} \/ (v.t = "string" /\ WhitespaceOnly(v.s))

\* The description a request sends: the empty string when it sends none.
Sent(description) ==
    IF description.t = "string" /\ description.s # "" THEN description ELSE Str("")

-----------------------------------------------------------------------------
(* C1: Create with a missing, empty or whitespace-only title answers
   400 {"error": "Title is required"}, issues no store statement and leaves
   the tasks table unchanged.  Stated for a store that executes statements,
   where a statement wrongly issued takes effect.  The handler tests `!title`
   only, so a whitespace-only title is inserted: this formula is violated. *)
C1_BlankTitleRejected ==
    [][\A title \in TitleInputs, description \in DescriptionInputs :
          Reachable /\ BlankTitle(title) /\ Create(title, description)
             => /\ last'.status = 400
                /\ last'.body = [error |-> "Title is required"]
                /\ last'.queries = 0
                /\ TableUnchanged]_vars

(* C2: Get, Update and Delete of an id that is not in the tasks table leave
   the rows and the id allocator unchanged and, the store having executed
   the statement, answer 404 {"error": "Task not found"}. *)
C2_MissingIdNotFound ==
    [][(\E op \in {"get", "update", "delete"} : Handled(op)) /\ Target(last') \notin DOMAIN rows
         => /\ TableUnchanged
            /\ Reachable => last'.status = 404 /\ last'.body = NotFoundBody]_vars

C2_Witness ==
    /\ last.op = "update" /\ last.status = 404
    /\ rows # NoRows /\ Target(last) \notin DOMAIN rows

(* C3: an Update answered 200 changes exactly the title and the description
   of the row it names, to the ones sent (the empty string for a description
   not sent): that row keeps its id and created_at, every other row is
   unchanged, no row is added or removed; and a Get of the same id that
   follows it returns the new title and description (the update's answer
   carries them as they were sent). *)
C3_UpdateFrame ==
    [][/\ Handled("update") /\ last'.status = 200
          => \A title \in TitleInputs, description \in DescriptionInputs :
                Update(last'.id, title, description)
                   => LET i == Target(last')
                      IN  /\ i \in DOMAIN rows
                          /\ DOMAIN rows' = DOMAIN rows
                          /\ nextId' = nextId
                          /\ rows'[i].title = title
                          /\ rows'[i].description = Sent(description)
                          /\ rows'[i].created_at = rows[i].created_at
                          /\ \A j \in DOMAIN rows \ {i} : rows'[j] = rows[j]
       /\ /\ last.op = "update" /\ last.status = 200
          /\ Handled("get") /\ Target(last') = Target(last) /\ Reachable
          => /\ last'.status = 200
             /\ last'.body.id = Num(Target(last))
             /\ last'.body.title = last.body.title
             /\ last'.body.description = Sent(last.body.description)]_vars

C3_Witness ==
    /\ last.op = "update" /\ last.status = 200
    /\ Cardinality(DOMAIN rows) = 2
    /\ rows[Target(last)].title = last.body.title
    /\ rows[Target(last)].created_at < now
    /\ \E j \in DOMAIN rows : rows[j].title # last.body.title

(* C4: Delete of an id that is in the table, the store having executed the
   statement, answers 204 and removes exactly that row; from then on Get of
   that id answers 404 and List holds no task with that id. *)
C4_DeleteRemovesOne ==
    [][/\ Handled("delete") /\ Target(last') \in DOMAIN rows /\ Reachable
          => /\ last'.status = 204
             /\ DOMAIN rows' = DOMAIN rows \ {Target(last')}
             /\ \A j \in DOMAIN rows' : rows'[j] = rows[j]
       /\ Handled("get") /\ Target(last') \in deleted /\ Reachable
          => last'.status = 404 /\ last'.body = NotFoundBody
       /\ Handled("list") /\ last'.status = 200
          => \A k \in 1..Len(last'.body.list) :
                \A i \in deleted : last'.body.list[k].id # Num(i)]_vars

C4_Witness ==
    /\ last.op = "list" /\ last.status = 200
    /\ deleted # {} /\ Len(last.body.list) > 0

(* C5: the ids returned by successful creates strictly increase in creation
   order (so they are pairwise distinct, and the id of a deleted task is
   never assigned again), and created_at is non-decreasing in creation
   order. *)
C5_MonotonicIds ==
    \A j, k \in 1..Len(created) :
        j < k => /\ created[j].id < created[k].id
                 /\ created[j].created_at <= created[k].created_at

C5_Witness ==
    /\ Len(created) = 2
    /\ created[1].id \in deleted
    /\ created[2].id \in DOMAIN rows
    /\ created[1].created_at < created[2].created_at

(* C6: every persisted task has a non-empty title.  Update does not validate
   the title, so it stores the empty string: this formula is violated. *)
C6_TitlesNonEmpty ==
    \A i \in DOMAIN rows : rows[i].title.t = "string" /\ rows[i].title.s # ""

(* C7, as claimed: a Create answered 201 carries the created task: the id
   assigned by the store, the submitted title, the description (empty string
   when omitted) and the server-set created_at.  The handler builds the body
   from insertId and the request, without created_at: this is violated. *)
C7_CreatedBodyHasCreatedAt ==
    [][Handled("create") /\ last'.status = 201
         => \A title \in TitleInputs, description \in DescriptionInputs :
               Create(title, description)
                  => LET body == last'.body
                     IN  /\ body.id.t = "number"
                         /\ DOMAIN rows' = DOMAIN rows \cup {body.id.n}
                         /\ body.title = title
                         /\ body.description = Sent(description)
                         /\ "created_at" \in DOMAIN body
                         /\ body.created_at = Timestamp(rows'[body.id.n].created_at)]_vars

(* C7, amended: a Create answered 201 carries exactly the id assigned by the
   store, the submitted title and the description (empty string when
   omitted); the server-set created_at is on the row inserted under that id,
   not in the answer. *)
C7_CreatedBody ==
    [][Handled("create") /\ last'.status = 201
         => \A title \in TitleInputs, description \in DescriptionInputs :
               Create(title, description)
                  => LET body == last'.body
                     IN  /\ DOMAIN body = {"id", "title", "description"}
                         /\ body.id.t = "number"
                         /\ body.id.n \notin DOMAIN rows
                         /\ DOMAIN rows' = DOMAIN rows \cup {body.id.n}
                         /\ body.title = title
                         /\ body.description = Sent(description)
                         /\ rows'[body.id.n].created_at = now]_vars

C7_Witness ==
    /\ last.op = "create" /\ last.status = 201
    /\ last.body = [id |-> Num(2), title |-> Str("A"), description |-> Str("")]
    /\ rows[2].created_at = now /\ now > 0

(* C8: from a Create answered 201 with id i until an Update or Delete of i
   succeeds, a Get of i that the store executes answers 200 with a task
   whose id is i and whose title and description are the ones submitted to
   that Create (the empty string for a description not sent).  In three
   parts: the Create stores what was submitted under the id it returns; a
   row changes or disappears only in a step that answers 200 to an Update or
   204 to a Delete of its id; a Get of a stored id answers 200 with that id
   and the row's title and description. *)
C8_GetAfterCreate ==
    [][/\ Handled("create") /\ last'.status = 201
          => \A title \in TitleInputs, description \in DescriptionInputs :
                Create(title, description)
                   => LET i == last'.body.id.n
                      IN  /\ i \in DOMAIN rows' \ DOMAIN rows
                          /\ rows'[i].title = title
                          /\ rows'[i].description = Sent(description)
       /\ \A i \in DOMAIN rows :
             (i \notin DOMAIN rows' \/ rows'[i] # rows[i])
                => /\ last'.op \in {"update", "delete"}
                   /\ last'.status \in {200, 204}
                   /\ Target(last') = i
       /\ Handled("get") /\ Target(last') \in DOMAIN rows /\ Reachable
          => LET i == Target(last')
             IN  /\ last'.status = 200
                 /\ last'.body.id = Num(i)
                 /\ last'.body.title = rows[i].title
                 /\ last'.body.description = rows[i].description]_vars

C8_Witness ==
    /\ last.op = "get" /\ last.status = 200
    /\ Target(last) = 1 /\ Len(created) = 2 /\ 2 \in deleted
    /\ last.body.title = Str("A") /\ last.body.description = Str("D")

(* C9: a Delete of an id that was deleted before changes nothing in the
   store and is never answered 204; the store having executed the
   statement, it is answered 404 every time (not 500). *)
C9_DeleteAgainNotFound ==
    [][Handled("delete") /\ Target(last') \in deleted
         => /\ TableUnchanged
            /\ last'.status # 204
            /\ Reachable => last'.status = 404 /\ last'.body = NotFoundBody]_vars

C9_Witness ==
    /\ last.op = "delete" /\ last.status = 404
    /\ Target(last) \in deleted /\ rows # NoRows

(* C10: every row written has a non-null description: a Create or an Update
   that sends no description, or an empty one, stores the empty string. *)
C10_DescriptionNeverNull ==
    [][/\ \A i \in DOMAIN rows' : rows'[i].description.t = "string"
       /\ Handled("create") /\ last'.status = 201
          => \A title \in TitleInputs, description \in DescriptionInputs :
                Create(title, description) /\ ~Truthy(description)
                   => rows'[last'.body.id.n].description = Str("")
       /\ Handled("update") /\ last'.status = 200
          => \A title \in TitleInputs, description \in DescriptionInputs :
                Update(last'.id, title, description) /\ ~Truthy(description)
                   => rows'[Target(last')].description = Str("")]_vars

C10_Witness ==
    /\ last.op = "update" /\ last.status = 200
    /\ last.body.description = Undefined
    /\ rows[Target(last)].description = Str("")

-----------------------------------------------------------------------------
(* Vocabulary of the properties on failures and start-up. *)

TaskOps == {"list", "get", "create", "update", "delete"}

\* A step in which a task route was called and its handler sent a statement.
QueriedStore == (\E op \in TaskOps : Handled(op)) /\ last'.queries = 1

FailureMessage(op) ==
    CASE op = "list" -> "Failed to fetch tasks"
      [] op = "get" -> "Failed to fetch task"
      [] op = "create" -> "Failed to create task"
      [] op = "update" -> "Failed to update task"
      [] op = "delete" -> "Failed to delete task"

\* The statement cannot be executed: server unreachable, unknown database,
\* unknown table.
StoreUnavailable == ~dbUp \/ ~dbExists \/ ~tableExists

Answered500 ==
    /\ last'.status = 500
    /\ last'.body = [error |-> FailureMessage(last'.op)]
    /\ TableUnchanged
    /\ UNCHANGED <<dbExists, tableExists>>

(* C11: when the statement of a List, Get, Create, Update or Delete fails
   (the store is unavailable, or an Update would set the NOT NULL title of an
   existing row to NULL), the handler answers 500 with the fixed message of
   its operation and the store is left unchanged; the process goes on
   answering requests. *)
C11_StoreFailureAnswered500 ==
    /\ [][/\ QueriedStore /\ StoreUnavailable => Answered500
          /\ Handled("update") /\ ~StoreUnavailable /\ Target(last') \in DOMAIN rows
             => \A description \in DescriptionInputs :
                   Update(last'.id, Undefined, description) => Answered500]_vars
    /\ [](last.status = 500 => ENABLED Health /\ ENABLED List)

C11_Witness ==
    /\ last.op = "delete" /\ last.status = 500
    /\ last.body = [error |-> "Failed to delete task"]
    /\ Target(last) \in DOMAIN rows

(* C12: an initDb attempt that fails at the create-database or at the
   create-table step arms the retry timer and starts nothing else; the timer
   always fires into one new attempt, whatever the number of attempts before
   it; initDb done stays done; and if the store is eventually reachable for
   good, initDb eventually succeeds. *)
C12_InitRetriedUntilDone ==
    /\ [][/\ initPc \in {"createDb", "createTable"} /\ initPc' # initPc /\ ~dbUp
             => initPc' = "timer" /\ tempPools' = tempPools
          /\ initPc = "timer" /\ initPc' # initPc => initPc' = "createDb"
          /\ initPc = "done" => initPc' = "done"]_vars
    /\ [](initPc = "timer" => ENABLED RetryTimer)
    /\ (<>[]dbUp => <>(initPc = "done" /\ dbExists /\ tableExists))

C12_Witness ==
    /\ initPc = "done" /\ tableExists
    /\ tempPools = MaxAttempts

(* C13, as claimed: every task request that reaches the store before initDb
   has succeeded is answered 500.  A store that holds the schema of an
   earlier run answers before initDb has run: this formula is violated. *)
C13_RequestsFailBeforeInit ==
    [][QueriedStore /\ initPc # "done" => last'.status = 500]_vars

(* C13, amended: requests are handled in every state of initDb; a task
   request that reaches the store while the tasks table does not exist is
   answered 500 and changes nothing; once initDb has succeeded the database
   and the table exist, and from then on a List is answered 200 whenever the
   store is reachable. *)
C13_RequestsFailWithoutTable ==
    /\ [][/\ QueriedStore /\ ~tableExists => Answered500
          /\ Handled("list") /\ initPc = "done" /\ dbUp => last'.status = 200]_vars
    /\ [](initPc = "done" => dbExists /\ tableExists)
    /\ [](ENABLED Health /\ ENABLED List)

C13_Witness ==
    /\ last.op = "create" /\ last.status = 201
    /\ initPc \in {"boot", "createDb", "timer"}

(* C14: the health check answers 200 {"status": "healthy"} in every state of
   the process, without a store statement and without changing anything. *)
C14_HealthAlwaysHealthy ==
    /\ [][Handled("health")
            => /\ last'.status = 200
               /\ last'.body = [status |-> "healthy"]
               /\ last'.queries = 0
               /\ TableUnchanged
               /\ UNCHANGED <<dbUp, dbExists, tableExists>>]_vars
    /\ [](ENABLED Health)

C14_Witness ==
    /\ last.op = "health" /\ last.status = 200
    /\ ~dbUp /\ ~tableExists /\ initPc = "timer"

-----------------------------------------------------------------------------
(* Vocabulary of the properties on two overlapping requests. *)

\* Both requests were answered, and each was in flight while the other was.
Raced == \A c \in Requests : inflight[c].pc = "answered" /\ inflight[c].overlapped

\* The id both requests name.
RacedId == CHOOSE i \in 1..Len(IdText) : IdText[i] = inflight[1].id

\* The request whose statement the store executed last.
ExecutedLast == CHOOSE c \in Requests : inflight[c].order = 2

IsUpdate(c) == inflight[c].op = "update" /\ inflight[c].title.t = "string"
IsDelete(c) == inflight[c].op = "delete"

(* C15: two overlapping Updates of the same id, in the table when each was
   received and each carrying a title, are both answered 200 with what they
   sent, in every interleaving, and the row holds the title and description
   of the update whose statement was executed last. *)
C15_ConcurrentUpdatesLastWins ==
    Raced /\ (\A c \in Requests : IsUpdate(c) /\ inflight[c].existed)
       => /\ \A c \in Requests :
                /\ inflight[c].status = 200
                /\ inflight[c].body.title = inflight[c].title
                /\ inflight[c].body.description = inflight[c].description
          /\ RacedId \in DOMAIN rows
          /\ rows[RacedId].title = inflight[ExecutedLast].title
          /\ rows[RacedId].description = Sent(inflight[ExecutedLast].description)

C15_Witness ==
    /\ Raced /\ \A c \in Requests : IsUpdate(c) /\ inflight[c].existed
    /\ inflight[1].title = inflight[2].title
    /\ inflight[1].description # inflight[2].description
    /\ inflight[1].order = 1 /\ inflight[2].pc = "answered"
    /\ rows[RacedId].description = Str("D")

(* C17: every request executes at most one store statement: exactly one for
   List, Get, Update, Delete and for a Create whose title passes validation,
   none for Health and for a Create answered 400; Update and Delete send
   their one statement whether or not the row exists, so neither reads
   before it writes. *)
C17_OneStatementPerRequest ==
    [][/\ \A op \in {"list", "get", "update", "delete"} : Handled(op) => last'.queries = 1
       /\ Handled("health") => last'.queries = 0
       /\ Handled("create") => last'.queries = IF last'.status = 400 THEN 0 ELSE 1
       /\ Handled("create") /\ last'.status # 400
          => \A title \in TitleInputs, description \in DescriptionInputs :
                Create(title, description) => Truthy(title)]_vars

C17_Witness ==
    /\ last.op = "delete" /\ last.status = 204 /\ last.queries = 1
    /\ rows # NoRows

(* C18: an Update of an existing id with the empty string as title, the
   store having executed the statement, is answered 200 and the row's title
   becomes the empty string. *)
C18_UpdateBlanksTitle ==
    [][Handled("update") /\ Reachable /\ Target(last') \in DOMAIN rows
         => \A description \in DescriptionInputs :
               Update(last'.id, Str(""), description)
                  => /\ last'.status = 200
                     /\ rows'[Target(last')].title = Str("")]_vars

C18_Witness ==
    /\ last.op = "update" /\ last.status = 200
    /\ last.body.title = Str("")
    /\ rows[Target(last)].title = Str("")

(* C19: of two overlapping Deletes of the same id, in the table when the
   first of them was received, exactly one is answered 204 and the other
   404, in every interleaving, and the table has lost that row and no
   other. *)
C19_ConcurrentDeletesOneWins ==
    Raced /\ (\A c \in Requests : IsDelete(c)) /\ (\E c \in Requests : inflight[c].existed)
       => /\ {inflight[c].status : c \in Requests} = {204, 404}
          /\ DOMAIN rows = {created[k].id : k \in 1..Len(created)} \ {RacedId}
          /\ Cardinality(DOMAIN rows) = Len(created) - 1

C19_Witness ==
    /\ Raced /\ \A c \in Requests : IsDelete(c) /\ inflight[c].existed
    /\ inflight[1].status = 404 /\ inflight[2].status = 204
    /\ rows # NoRows

(* C20: an Update (carrying a title) and a Delete of the same id that
   overlap, the id in the table when the first of them was received, end in
   one of two ways: the update's statement is executed first, Update 200 and
   Delete 204; or the delete's is executed first, Delete 204 and Update 404.
   Either way the row is absent afterwards. *)
C20_UpdateDeleteRace ==
    \A u, d \in Requests :
        Raced /\ IsUpdate(u) /\ IsDelete(d) /\ (inflight[u].existed \/ inflight[d].existed)
           => /\ inflight[d].status = 204
              /\ inflight[u].status = IF inflight[u].order = 1 THEN 200 ELSE 404
              /\ RacedId \notin DOMAIN rows
              /\ RacedId \in deleted

C20_Witness ==
    /\ Raced /\ IsUpdate(1) /\ IsDelete(2)
    /\ inflight[1].existed /\ inflight[2].existed
    /\ inflight[1].status = 404 /\ inflight[2].status = 204

-----------------------------------------------------------------------------
(* Vocabulary of the properties on the Presentation Client. *)

\* The titles that pass the client's check.
SubmittedTitles == {title \in ClientTitles : ~BlankTitle(title)}

\* The places in the local list of the task that the last request names.
Shown == {k \in 1..Len(client.tasks) : IdText[client.tasks[k].id.n] = last'.id}

\* A step in which the client makes a mutating call (its title check passed).
ClientMutates ==
    \/ /\ last'.op = "create"
       /\ \E title \in SubmittedTitles, description \in ClientDescriptions :
             ClientCreate(title, description)
    \/ /\ last'.op = "update"
       /\ \E k \in Shown, title \in SubmittedTitles, description \in ClientDescriptions :
             ClientUpdate(k, title, description)
    \/ /\ last'.op = "delete"
       /\ \E k \in Shown : ClientDelete(k)

\* The client starts one more fetchTasks() and leaves its list as it is.
StartsFetch == client'.fetches = client.fetches + 1 /\ client'.tasks = client.tasks

(* C16, as claimed: after every mutating call the client makes it re-issues
   the List call.  The calls to fetchTasks() stand inside the try blocks,
   after the awaited call, so a mutating call that is rejected is followed
   by setError only: this formula is violated. *)
C16_RefetchAfterEveryMutation ==
    [][ClientMutates => StartsFetch]_vars

(* C16, amended: after every mutating call that the server answers with a
   2xx status the client starts one fetchTasks(); after one answered
   otherwise it starts none; neither changes the local list.  The local list
   changes only when a fetchTasks() is answered 200, to the list answered. *)
C16_RefetchAfterResolvedMutation ==
    [][/\ ClientMutates
          => IF last'.status \in {200, 201, 204}
             THEN StartsFetch
             ELSE client'.fetches = client.fetches /\ client'.tasks = client.tasks
       /\ client'.tasks # client.tasks
          => /\ ClientFetch
             /\ last'.op = "list" /\ last'.status = 200
             /\ client'.tasks = last'.body.list]_vars

C16_Witness ==
    /\ client.error = "Failed to delete task. Please try again."
    /\ client.fetches = 0
    /\ Len(client.tasks) = 2
    /\ Cardinality(DOMAIN rows) = 1
    /\ last.op = "delete" /\ last.status = 404

-----------------------------------------------------------------------------
(* C21: an Update of an id in the table whose body has no title, the store
   being able to execute statements, is answered 500
   {"error": "Failed to update task"} after one statement, not 400, and the
   row keeps its title, its description and its created_at; no other row
   changes. *)
C21_UpdateWithoutTitleFails ==
    [][Handled("update") /\ Reachable /\ Target(last') \in DOMAIN rows
         => \A description \in DescriptionInputs :
               Update(last'.id, Undefined, description)
                  => /\ last'.status = 500 /\ last'.status # 400
                     /\ last'.body = [error |-> "Failed to update task"]
                     /\ last'.queries = 1
                     /\ rows'[Target(last')].title = rows[Target(last')].title
                     /\ rows'[Target(last')].description = rows[Target(last')].description
                     /\ rows' = rows]_vars

C21_Witness ==
    /\ last.op = "update" /\ last.status = 500
    /\ last.body = [error |-> "Failed to update task"]
    /\ Reachable
    /\ Target(last) \in DOMAIN rows
    /\ rows[Target(last)].title = Str("A")
    /\ rows[Target(last)].description = Str("D")

(* C22, as claimed: the body of an Update answered 200 is the path parameter
   as a string, and the title and description of the request body; with no
   description sent the answer has none while the row holds the empty
   string; and the answer's description is the stored one only when a
   non-empty description was sent.  An empty description sent is answered
   and stored as the empty string, so this formula is violated. *)
C22_UpdateBodyEchoesRequest ==
    [][Handled("update") /\ last'.status = 200
         => \A title \in TitleInputs, description \in DescriptionInputs :
               Update(last'.id, title, description)
                  => /\ last'.body = [id |-> Str(last'.id), title |-> title,
                                      description |-> description]
                     /\ description = Undefined
                        => /\ last'.body.description = Undefined
                           /\ rows'[Target(last')].description = Str("")
                     /\ last'.body.description = rows'[Target(last')].description
                        => description.t = "string" /\ description.s # ""]_vars

(* C22, amended: as above, but the answer's description is the stored one
   exactly when a description string was sent, empty or not. *)
C22_UpdateBodyEchoesRequestString ==
    [][Handled("update") /\ last'.status = 200
         => \A title \in TitleInputs, description \in DescriptionInputs :
               Update(last'.id, title, description)
                  => /\ last'.body = [id |-> Str(last'.id), title |-> title,
                                      description |-> description]
                     /\ description = Undefined
                        => /\ last'.body.description = Undefined
                           /\ rows'[Target(last')].description = Str("")
                     /\ last'.body.description = rows'[Target(last')].description
                        <=> description.t = "string"]_vars

C22_Witness ==
    /\ last.op = "update" /\ last.status = 200
    /\ last.body.id = Str("1")
    /\ last.body.title = Str("A")
    /\ last.body.description = Str("")
    /\ rows[Target(last)].description = Str("")

-----------------------------------------------------------------------------
(* Vocabulary of the properties on initDb's runs. *)

\* A step in which initDb is called.
AttemptStarts == running' > running

\* A step of initDb or of what schedules it.
StartupStep == startup' # startup

(* C23: at any time at most one initDb run is in progress or one retry
   timer is pending, never both; an attempt starts only when none is in
   progress, either from the listen callback (once, as the first attempt) or
   from the one pending timer, armed by the previous attempt when it failed;
   and once an attempt has succeeded there is no run, no timer and no
   further attempt. *)
C23_InitRunsSequential ==
    /\ [](running + timers <= 1)
    /\ [](initPc = "done" => running = 0 /\ timers = 0)
    /\ [][/\ AttemptStarts
             => /\ running = 0 /\ running' = 1
                /\ \/ initPc = "boot" /\ attempts = 0 /\ timers = 0 /\ timers' = 0
                   \/ initPc = "timer" /\ attempts > 0 /\ timers = 1 /\ timers' = 0
          /\ timers' > timers
             => initPc \in {"createDb", "createTable"} /\ initPc' = "timer" /\ running' = 0
          /\ initPc # "boot" => initPc' # "boot"
          /\ initPc = "done" => UNCHANGED startup]_vars

C23_Witness ==
    /\ initPc = "timer"
    /\ timers = 1 /\ running = 0
    /\ attempts = MaxAttempts

(* C24: no step of initDb, in its first run or in a later one, changes a row
   of the tasks table or its id allocator, or removes the database or the
   table: a table that exists is left as it is. *)
C24_InitKeepsRows ==
    [][StartupStep
         => /\ rows' = rows
            /\ nextId' = nextId
            /\ dbExists => dbExists'
            /\ tableExists => tableExists']_vars

C24_Witness ==
    /\ initPc = "done"
    /\ attempts = MaxAttempts
    /\ DOMAIN rows = {1}
    /\ rows[1].title = Str("A")
    /\ nextId = 2

(* C25: the temporary pools open are as many as the calls of initDb so far:
   every call creates one, and no step closes one, whether the run ends in
   success or in failure. *)
C25_TempPoolsNeverClosed ==
    /\ [](tempPools = attempts)
    /\ [][/\ tempPools' >= tempPools
          /\ AttemptStarts /\ tempPools < MaxAttempts => tempPools' = tempPools + 1]_vars

C25_Witness ==
    /\ tempPools = MaxAttempts /\ attempts = MaxAttempts
    /\ running = 0 /\ timers = 0
    /\ initPc = "done"

====
